---- MODULE Spec2Model ----
(***************************************************************************)
(* A model of the S3 upload demo: the storage client wrapper               *)
(* (src/src/libs/aws/s3/s3.ts) and the upload page that calls it           *)
(* (src/unnamed/part_000, the page module of the /upload route).           *)
(*                                                                         *)
(* Strings are TLA+ strings.  A JavaScript value that may be undefined or  *)
(* null is a tagged record, so that `x || ""` and a template literal's     *)
(* `${x}` are computed the way JavaScript computes them.                   *)
(***************************************************************************)
EXTENDS Integers, Sequences, FiniteSets, TLC

VARIABLES env, s3Client, store, now, put, act, lst, page, sig, access

vars == <<env, s3Client, store, now, put, act, lst, page, sig, access>>

(***************************************************************************)
(* JavaScript values                                                       *)
(***************************************************************************)
Undefined == [t |-> "undefined"]
Null == [t |-> "null"]
False == [t |-> "boolean"]
Str(s) == [t |-> "string", v |-> s]
Num(n) == [t |-> "number", v |-> n]

\* JavaScript truthiness of the values the code tests with `!x`, `x || d`, `if (x)`.
Truthy(x) ==
  CASE x.t = "string" -> x.v # ""
    [] x.t = "file" -> TRUE
    [] OTHER -> FALSE

\* `x || ""` where x is a string or undefined.
OrEmpty(x) == IF Truthy(x) THEN x.v ELSE ""

\* `${x}` in a template literal: undefined prints as the text "undefined".
Template(x) == IF x.t = "string" THEN x.v ELSE x.t

(***************************************************************************)
(* Strings                                                                 *)
(***************************************************************************)
StartsWith(s, p) == Len(p) <= Len(s) /\ SubSeq(s, 1, Len(p)) = p

EndsWith(s, p) == Len(p) <= Len(s) /\ SubSeq(s, Len(s) - Len(p) + 1, Len(s)) = p

\* The first position >= from at which one of the strings in cs starts, or
\* Len(s) + 1 when there is none.
IndexOfAny(s, cs, from) ==
  LET hits == {i \in from..Len(s) :
                 \E c \in cs : i + Len(c) - 1 <= Len(s) /\ SubSeq(s, i, i + Len(c) - 1) = c}
  IN IF hits = {} THEN Len(s) + 1 ELSE CHOOSE i \in hits : \A j \in hits : i <= j

(***************************************************************************)
(* Program constants                                                       *)
(***************************************************************************)
\* generateGetSignedUrl's default expiresIn, in seconds.
DefaultExpiresIn == 300

\* The expiresIn UploadPage passes, in seconds.
PageExpiresIn == 10

\* The bucket UploadPage lists and signs for, and the prefix it lists.
PageBucket == "teqhire-store-dev"

PagePrefix == "test"

(***************************************************************************)
(* Bounds of the model                                                     *)
(***************************************************************************)
\* The clock of the form submissions stops here (seconds, one-second ticks).
MaxTime == 1

\* The latest instant at which the wrapper specification's clock starts a
\* validity window.
MaxStart == 1

(***************************************************************************)
(* The process environment and the inputs                                  *)
(***************************************************************************)
OtherBucket == "other-bucket"

Region == "eu-west-1"

\* process.env at process start: each variable is set or absent.
Envs ==
  [AWS_REGION : {Undefined, Str(Region)},
   AWS_ACCESS_KEY_ID : {Undefined, Str("AKIA")},
   AWS_SECRET_ACCESS_KEY : {Undefined, Str("wJal")},
   AWS_BUCKET_NAME : {Undefined, Str(PageBucket), Str(OtherBucket)}]

\* A File of a submitted form: its name, its bytes and its MIME type.
File(name, body, type) == [t |-> "file", name |-> name, body |-> body, type |-> type]

FileSize(file) == Len(file.body)

\* formData.get("file"): null when the form has no such field, the browser's
\* nameless empty File when nothing was chosen, or a chosen file.  Two of the
\* chosen files share a name, one of them empty; one name holds a '#'.
FormFiles ==
  {Null,
   File("", "", "application/octet-stream"),
   File("a.png", "PNG", "image/png"),
   File("a.png", "", "image/png"),
   File("a.png#x", "txt", "")}

\* formData.get("private"): the checkbox is absent or checked.
FormPrivate == {Null, Str("on")}

Forms == [file : FormFiles, private : FormPrivate]

\* The errors the object store signals.
StoreErrors == {"AccessDenied", "TimeoutError"}

\* Every key of the model, in the store's listing order (UTF-8 binary order).
AllKeys == <<"test/a.png", "test/a.png#x", "tmp/z">>

\* The buckets' contents at process start.
InitialObjects ==
  {[Bucket |-> PageBucket, Key |-> "test/a.png", Body |-> "old", ContentType |-> Str("image/png"),
    ACL |-> "private", LastModified |-> 0],
   [Bucket |-> PageBucket, Key |-> "tmp/z", Body |-> "z", ContentType |-> Undefined,
    ACL |-> "public-read", LastModified |-> 0]}

(***************************************************************************)
(* The storage client wrapper: s3.ts                                       *)
(***************************************************************************)
\* NewS3Client with `${...}` in place of `... || ""` for the access key.
NewS3ClientTemplated(e) ==
  [region |-> e.AWS_REGION,
   credentials |-> [accessKeyId |-> Template(e.AWS_ACCESS_KEY_ID),
                    secretAccessKey |-> OrEmpty(e.AWS_SECRET_ACCESS_KEY)]]

\* new S3Client({...}) at module load.
NewS3Client(e) ==
  [region |-> e.AWS_REGION,
   credentials |-> [accessKeyId |-> OrEmpty(e.AWS_ACCESS_KEY_ID),
                    secretAccessKey |-> OrEmpty(e.AWS_SECRET_ACCESS_KEY)]]

\* uploadFileToS3: the PutObjectCommandInput built from the caller's parameters.
\* ACL is set only when the caller gave one.
UploadRequest(params) ==
  [Bucket |-> params.Bucket,
   Key |-> params.Key,
   Body |-> params.Body,
   ContentType |-> params.ContentType,
   ACL |-> IF Truthy(params.ACL) THEN params.ACL ELSE Undefined]

\* Rethrow throwing an error of its own in place of the one caught.
RethrowTranslated(error) == "UploadFailed"

\* uploadFileToS3's catch block: log, then throw the error caught.
Rethrow(error) == error

\* getPublicUrl: a template literal over the bucket, process.env.AWS_REGION and
\* the key, none of them encoded.
getPublicUrl(bucketName, key) ==
  "https://" \o bucketName \o ".s3." \o Template(env.AWS_REGION) \o ".amazonaws.com/" \o key

\* ExpiresInOrDefault with the parameter dropped.
ExpiresInIgnored(expiresIn) == DefaultExpiresIn

\* generateGetSignedUrl: the expiresIn handed to the presigner.
ExpiresInOrDefault(expiresIn) ==
  IF expiresIn.t = "undefined" THEN DefaultExpiresIn ELSE expiresIn.v

\* getSignedUrl(s3Client, new GetObjectCommand({Bucket, Key}), {expiresIn}): the
\* presigned URL names the bucket and key of the command (the presigner encodes
\* both), the client's region and access key, the signing time and the expiry.
Presign(client, command, options, t) ==
  [kind |-> "signed",
   bucket |-> command.Bucket,
   key |-> command.Key,
   region |-> client.region,
   credential |-> client.credentials.accessKeyId,
   date |-> t,
   expires |-> options.expiresIn]

generateGetSignedUrl(bucket, key, expiresIn) ==
  Presign(s3Client, [Bucket |-> bucket, Key |-> key],
          [expiresIn |-> ExpiresInOrDefault(expiresIn)], now)

\* ListRequest with the prefix dropped.
ListRequestNoPrefix(bucket, prefix) == [Bucket |-> bucket, Prefix |-> ""]

\* listFilesInS3Path: the ListObjectsV2Command's input.
ListRequest(bucket, prefix) == [Bucket |-> bucket, Prefix |-> prefix]

\* listFilesInS3Path: response.Contents?.map(...) || [].
MapContents(response) ==
  IF response.Contents.t = "undefined"
  THEN <<>>
  ELSE [i \in 1..Len(response.Contents.v) |->
          LET item == response.Contents.v[i]
          IN [Key |-> item.Key, LastModified |-> item.LastModified, Size |-> item.Size,
              key |-> item.Key, lastModified |-> item.LastModified, size |-> item.Size]]

(***************************************************************************)
(* The object store, as the wrapper's calls see it                         *)
(***************************************************************************)
\* PutObject: the object under (Bucket, Key) is replaced by the one sent; an
\* object put without an ACL is private.
PutObject(objects, request, t) ==
  {o \in objects : ~(o.Bucket = request.Bucket /\ o.Key = request.Key)}
  \cup {[Bucket |-> request.Bucket, Key |-> request.Key, Body |-> request.Body,
         ContentType |-> request.ContentType,
         ACL |-> IF request.ACL.t = "undefined" THEN "private" ELSE request.ACL.v,
         LastModified |-> t]}

\* The store answers only requests signed with credentials: the client signs
\* with the keys it was constructed with, and empty keys are refused.  (A client
\* constructed with an undefined region resolves one from the SDK's own
\* configuration chain when it sends, so its requests may succeed or fail.)
ClientAuthorized(client) ==
  client.credentials.accessKeyId # "" /\ client.credentials.secretAccessKey # ""

\* The store takes a put only into a bucket with a name.
PutAccepted(request) == request.Bucket # ""

\* ListObjectsV2: the bucket's objects whose key starts with Prefix, in key
\* order; Contents is absent when there is none.  The model's buckets stay far
\* below the provider's page size.
ListObjectsV2(objects, request) ==
  LET match(k) == /\ StartsWith(k, request.Prefix)
                  /\ \E o \in objects : o.Bucket = request.Bucket /\ o.Key = k
      keys == SelectSeq(AllKeys, match)
      item(k) == LET o == CHOOSE o \in objects : o.Bucket = request.Bucket /\ o.Key = k
                 IN [Key |-> k, LastModified |-> o.LastModified, Size |-> Len(o.Body)]
  IN [Contents |-> IF keys = <<>> THEN Undefined
                   ELSE [t |-> "array", v |-> [i \in 1..Len(keys) |-> item(keys[i])]]]

\* What an https URL addresses: the authority ends at the first '/', '?' or '#',
\* the path at the first '?' or '#'; the virtual-hosted host is
\* <bucket>.s3.<region>.amazonaws.com and the key is the path after its '/'.
\* (No key of the model holds a '%', so the path's decoding changes nothing.)
ResolveUrl(href) ==
  LET hostStart == Len("https://") + 1
      hostEnd == IndexOfAny(href, {"/", "?", "#"}, hostStart)
      host == SubSeq(href, hostStart, hostEnd - 1)
      pathEnd == IndexOfAny(href, {"?", "#"}, hostEnd)
      path == SubSeq(href, hostEnd, pathEnd - 1)
      s3At == IndexOfAny(host, {".s3."}, 1)
      awsAt == IndexOfAny(host, {".amazonaws.com"}, s3At + Len(".s3."))
  IN [bucket |-> SubSeq(host, 1, s3At - 1),
      region |-> SubSeq(host, s3At + Len(".s3."), awsAt - 1),
      key |-> IF path = "" THEN "" ELSE SubSeq(path, 2, Len(path))]

\* What a URL of the page addresses: a presigned URL names its bucket, region
\* and key; a public URL is resolved as an https URL.
Addressed(url) ==
  IF url.kind = "signed"
  THEN [bucket |-> url.bucket, region |-> Template(url.region), key |-> url.key]
  ELSE ResolveUrl(url.href)

\* A GET through a presigned URL at time t: refused when the URL was signed
\* with an empty access key, and once its validity window has passed.  At the
\* instant of expiry the provider decides, so both outcomes are possible there.
SignedGetResults(objects, url, t) ==
  IF url.credential = "" \/ t > url.date + url.expires THEN {"AccessDenied"}
  ELSE LET found == \E o \in objects : o.Bucket = url.bucket /\ o.Key = url.key
           inWindow == IF found THEN "OK" ELSE "NoSuchKey"
       IN IF t = url.date + url.expires THEN {inWindow, "AccessDenied"} ELSE {inWindow}

(***************************************************************************)
(* The upload page: uploadAction and UploadPage                            *)
(***************************************************************************)
\* mime-types' lookup(path): the type of the path's extension, or false.
Lookup(path) == IF EndsWith(path, ".png") THEN Str("image/png") ELSE False

\* UploadParamsOf with one key for every file.
UploadParamsFixedKey(file, isPrivate) ==
  [Bucket |-> OrEmpty(env.AWS_BUCKET_NAME),
   Key |-> "test/a.png",
   Body |-> file.body,
   ContentType |-> Str(file.type),
   ACL |-> Str(IF isPrivate THEN "private" ELSE "public-read")]

\* uploadAction: the UploadParams it builds for a named file.
UploadParamsOf(file, isPrivate) ==
  [Bucket |-> OrEmpty(env.AWS_BUCKET_NAME),
   Key |-> "test/" \o file.name,
   Body |-> file.body,
   ContentType |-> Str(file.type),
   ACL |-> Str(IF isPrivate THEN "private" ELSE "public-read")]

\* The first check of uploadAction: `if (!file)` logs and goes on.
RequiredCheck(file) == IF ~Truthy(file) THEN <<"File is required">> ELSE <<>>

\* RunWithoutFile returning after the first check logged.
RunWithoutFileReturning(form) ==
  [pc |-> "done", form |-> form, logs |-> RequiredCheck(form.file)]

\* uploadAction when formData.get("file") is null: the first check logs, and
\* the second check's read of file.size throws a TypeError.
RunWithoutFile(form) ==
  [pc |-> "threw", form |-> form, logs |-> RequiredCheck(form.file), error |-> "TypeError",
   at |-> "file.size"]

\* uploadAction when formData.get("file") is a File, up to its call of
\* uploadFileToS3: what it logged with console.error, and whether it threw (and
\* at which statement) or went on to upload.
RunWithFile(form) ==
  LET file == form.file
      logs == RequiredCheck(file)
              \o (IF FileSize(file) = 0 THEN <<"File is empty">> ELSE <<>>)
      isPrivate == form.private = Str("on") \/ form.private = Str("true")
  IN IF file.name = ""
     THEN [pc |-> "threw", form |-> form, logs |-> logs,
           error |-> "File name is required", at |-> "file.name"]
     ELSE [pc |-> "awaiting", form |-> form, logs |-> logs,
           params |-> UploadParamsOf(file, isPrivate)]

RunUploadAction(form) ==
  IF form.file.t = "file" THEN RunWithFile(form) ELSE RunWithoutFile(form)

\* uploadFileToS3 up to its await: the command is built and sent once.
StartUpload(params, caller) ==
  [pc |-> "sending", caller |-> caller, params |-> params,
   request |-> UploadRequest(params), sends |-> 1]

\* One element of fileUrls: what the callback of files.map returns.
Entry(file, url) ==
  [url |-> url, key |-> file.key, size |-> file.size, lastModified |-> file.lastModified,
   mimeType |-> Lookup(file.key)]

\* The callback's URL when unhide is not "on".
PublicLink(file) ==
  [kind |-> "public", href |-> getPublicUrl(OrEmpty(env.AWS_BUCKET_NAME), file.key)]

\* The callback's URL when unhide is "on".
SignedLink(file) == generateGetSignedUrl(PageBucket, file.key, Num(PageExpiresIn))

Pending == [t |-> "pending"]

\* UploadPage after its listing resolved: files.map starts every callback.  A
\* callback of the public branch has no await and is settled at once; one of the
\* signed branch waits for its presigned URL.
AfterList(p, files) ==
  IF p.unhide = Str("on") /\ files # <<>>
  THEN [pc |-> "fanout", unhide |-> p.unhide, files |-> files,
        slots |-> [i \in 1..Len(files) |-> Pending]]
  ELSE [pc |-> "joined", unhide |-> p.unhide, files |-> files,
        fileUrls |-> [i \in 1..Len(files) |-> Entry(files[i], PublicLink(files[i]))]]

\* Promise.all: the results in the order of the promises, once all are settled.
Join(p, slots) ==
  IF \A i \in DOMAIN slots : slots[i] # Pending
  THEN [pc |-> "joined", unhide |-> p.unhide, files |-> p.files, fileUrls |-> slots]
  ELSE [p EXCEPT !.slots = slots]

(***************************************************************************)
(* Initial states                                                          *)
(***************************************************************************)
Idle == [pc |-> "idle"]

InitWith(envs) ==
  /\ env \in envs
  /\ s3Client = NewS3Client(env)
  /\ store = InitialObjects
  /\ now = 0
  /\ put = Idle
  /\ act = Idle
  /\ lst = Idle
  /\ page = Idle
  /\ sig = Idle
  /\ access = Idle

Init == InitWith(Envs)

(***************************************************************************)
(* Actions of the store's replies to uploadFileToS3                        *)
(***************************************************************************)
\* s3Client.send(PutObjectCommand) resolves: the object is stored,
\* uploadFileToS3 resolves, and an awaiting uploadAction revalidates and returns.
PutOk ==
  /\ put.pc = "sending"
  /\ ClientAuthorized(s3Client)
  /\ PutAccepted(put.request)
  /\ store' = PutObject(store, put.request, now)
  /\ put' = [put EXCEPT !.pc = "resolved"]
  /\ act' = IF put.caller = "uploadAction"
            THEN [pc |-> "done", form |-> act.form, logs |-> act.logs, params |-> act.params]
            ELSE act
  /\ UNCHANGED <<env, s3Client, now, lst, page, sig, access>>

\* s3Client.send(PutObjectCommand) rejects with e: uploadFileToS3 logs and
\* throws, and an awaiting uploadAction lets the error through.
PutErr(e) ==
  /\ put.pc = "sending"
  /\ put' = [pc |-> "rejected", caller |-> put.caller, params |-> put.params,
             request |-> put.request, sends |-> put.sends, received |-> e,
             error |-> Rethrow(e)]
  /\ act' = IF put.caller = "uploadAction"
            THEN [pc |-> "threw", form |-> act.form, logs |-> act.logs,
                  error |-> Rethrow(e), at |-> "uploadFileToS3"]
            ELSE act
  /\ UNCHANGED <<env, s3Client, store, now, lst, page, sig, access>>

\* uploadAction(formData), up to its await of uploadFileToS3.  The model keeps
\* one form submission in flight at a time.
uploadAction(form) ==
  /\ act.pc # "awaiting"
  /\ put.pc # "sending"
  /\ act' = RunUploadAction(form)
  /\ put' = IF act'.pc = "awaiting" THEN StartUpload(act'.params, "uploadAction") ELSE put
  /\ UNCHANGED <<env, s3Client, store, now, lst, page, sig, access>>

\* uploadFileToS3(params), called directly.
uploadFileToS3(params) ==
  /\ put.pc # "sending"
  /\ put' = StartUpload(params, "direct")
  /\ UNCHANGED <<env, s3Client, store, now, act, lst, page, sig, access>>

(***************************************************************************)
(* Actions of listing and of the page                                      *)
(***************************************************************************)
StartList(bucket, prefix, caller) ==
  [pc |-> "sending", caller |-> caller, bucket |-> bucket, prefix |-> prefix,
   request |-> ListRequest(bucket, prefix)]

\* listFilesInS3Path(bucket, prefix), called directly.
listFilesInS3Path(bucket, prefix) ==
  /\ lst.pc # "sending"
  /\ lst' = StartList(bucket, prefix, "direct")
  /\ UNCHANGED <<env, s3Client, store, now, put, act, page, sig, access>>

\* UploadPage({searchParams}), up to its await of listFilesInS3Path.  The model
\* keeps one render in flight at a time; a render shares nothing with another.
UploadPage(unhide) ==
  /\ page.pc \in {"idle", "rendered", "failed"}
  /\ lst.pc # "sending"
  /\ page' = [pc |-> "listing", unhide |-> unhide]
  /\ lst' = StartList(PageBucket, PagePrefix, "UploadPage")
  /\ UNCHANGED <<env, s3Client, store, now, put, act, sig, access>>

\* s3Client.send(ListObjectsV2Command) resolves: listFilesInS3Path returns the
\* mapped Contents, and an awaiting UploadPage starts its callbacks.
ListOk ==
  /\ lst.pc = "sending"
  /\ ClientAuthorized(s3Client)
  /\ LET response == ListObjectsV2(store, lst.request)
         result == MapContents(response)
     IN /\ lst' = [pc |-> "resolved", caller |-> lst.caller, bucket |-> lst.bucket,
                   prefix |-> lst.prefix, request |-> lst.request, result |-> result]
        /\ page' = IF lst.caller = "UploadPage" THEN AfterList(page, result) ELSE page
  /\ UNCHANGED <<env, s3Client, store, now, put, act, sig, access>>

\* s3Client.send(ListObjectsV2Command) rejects: listFilesInS3Path logs and
\* throws, which ends an awaiting UploadPage.
ListErr(e) ==
  /\ lst.pc = "sending"
  /\ lst' = [pc |-> "rejected", caller |-> lst.caller, bucket |-> lst.bucket,
             prefix |-> lst.prefix, request |-> lst.request, error |-> e]
  /\ page' = IF lst.caller = "UploadPage"
             THEN [pc |-> "failed", unhide |-> page.unhide, error |-> e]
             ELSE page
  /\ UNCHANGED <<env, s3Client, store, now, put, act, sig, access>>

\* The presigned URL of callback i arrives; the callback returns its entry, and
\* Promise.all resolves when this was the last one.
SlotResolve(i) ==
  /\ page.pc = "fanout"
  /\ i \in DOMAIN page.slots
  /\ page.slots[i] = Pending
  /\ page' = Join(page, [page.slots EXCEPT ![i] = Entry(page.files[i], SignedLink(page.files[i]))])
  /\ UNCHANGED <<env, s3Client, store, now, put, act, lst, sig, access>>

\* The presigner rejects in callback i: Promise.all rejects and the render ends.
SlotReject(i, e) ==
  /\ page.pc = "fanout"
  /\ i \in DOMAIN page.slots
  /\ page.slots[i] = Pending
  /\ page' = [pc |-> "failed", unhide |-> page.unhide, error |-> e]
  /\ UNCHANGED <<env, s3Client, store, now, put, act, lst, sig, access>>

\* UploadPage returns its element: one link per entry of fileUrls.
Render ==
  /\ page.pc = "joined"
  /\ page' = [page EXCEPT !.pc = "rendered"]
  /\ UNCHANGED <<env, s3Client, store, now, put, act, lst, sig, access>>

(***************************************************************************)
(* Actions of presigned URLs and of time                                   *)
(***************************************************************************)
\* generateGetSignedUrl(bucket, key, expiresIn), called directly; expiresIn may
\* be left out.
SignCall(bucket, key, expiresIn) ==
  /\ sig' = [pc |-> "resolved", bucket |-> bucket, key |-> key, expiresIn |-> expiresIn,
             at |-> now, url |-> generateGetSignedUrl(bucket, key, expiresIn)]
  /\ access' = Idle
  /\ UNCHANGED <<env, s3Client, store, now, put, act, lst, page>>

\* A GET through the presigned URL last obtained.
Access ==
  /\ sig.pc = "resolved"
  /\ \E r \in SignedGetResults(store, sig.url, now) :
       access' = [pc |-> "done", url |-> sig.url, at |-> now, result |-> r]
  /\ UNCHANGED <<env, s3Client, store, now, put, act, lst, page, sig>>

\* One second passes.
Tick ==
  /\ now < MaxTime
  /\ now' = now + 1
  /\ UNCHANGED <<env, s3Client, store, put, act, lst, page, sig, access>>

\* The instants the wrapper specification's clock visits: a start, and each
\* expiry and the second after it.
Instants ==
  {s + e : s \in 0..MaxStart,
           e \in {0, PageExpiresIn, PageExpiresIn + 1, DefaultExpiresIn, DefaultExpiresIn + 1}}

\* Time passes to a later instant.
Elapse(t) ==
  /\ t \in Instants
  /\ t > now
  /\ now' = t
  /\ UNCHANGED <<env, s3Client, store, put, act, lst, page, sig, access>>

(***************************************************************************)
(* Specifications                                                          *)
(***************************************************************************)
Unhides == {Undefined, Str("on")}

\* The page: form submissions and page requests, concurrently, within one
\* instant.
Next ==
  \/ \E form \in Forms : uploadAction(form)
  \/ PutOk
  \/ \E e \in StoreErrors : PutErr(e)
  \/ \E unhide \in Unhides : UploadPage(unhide)
  \/ ListOk
  \/ \E e \in StoreErrors : ListErr(e)
  \/ \E i \in 1..Len(AllKeys) : SlotResolve(i)
  \/ \E i \in 1..Len(AllKeys), e \in StoreErrors : SlotReject(i, e)
  \/ Render

Spec == Init /\ [][Next]_vars

\* Form submissions alone, as time passes.
NextUploads ==
  \/ \E form \in Forms : uploadAction(form)
  \/ PutOk
  \/ \E e \in StoreErrors : PutErr(e)
  \/ Tick

SpecUploads == Init /\ [][NextUploads]_vars

\* The parameters of the direct calls of the wrapper.
DirectBuckets == {PageBucket, ""}

DirectKeys == {"test/a.png#x", "tmp/z"}

DirectACLs == {Undefined, Str("private"), Str("public-read")}

DirectParams ==
  [Bucket : DirectBuckets, Key : DirectKeys, Body : {"new"}, ContentType : {Undefined},
   ACL : DirectACLs]

DirectPrefixes == {"", "test", "test/a.png#", "tmp/", "x"}

WrapperEnvs == {e \in Envs : e.AWS_BUCKET_NAME = Str(PageBucket)}

InitWrapper == InitWith(WrapperEnvs)

\* The wrapper called directly: uploads and listings.
NextWrapper ==
  \/ \E params \in DirectParams : uploadFileToS3(params)
  \/ PutOk
  \/ \E e \in StoreErrors : PutErr(e)
  \/ \E bucket \in DirectBuckets, prefix \in DirectPrefixes : listFilesInS3Path(bucket, prefix)
  \/ ListOk
  \/ \E e \in StoreErrors : ListErr(e)

SpecWrapper == InitWrapper /\ [][NextWrapper]_vars

SignedParams ==
  [Bucket : {PageBucket}, Key : {"test/a.png#x"}, Body : {"new"}, ContentType : {Undefined},
   ACL : {Str("private")}]

SignedKeys == {"test/a.png", "test/a.png#x"}

SignedExpiresIn == {Undefined, Num(PageExpiresIn)}

\* The wrapper called directly: private uploads, presigned URLs and their use
\* as time passes.
NextSigned ==
  \/ \E params \in SignedParams : uploadFileToS3(params)
  \/ PutOk
  \/ \E e \in StoreErrors : PutErr(e)
  \/ \E key \in SignedKeys, expiresIn \in SignedExpiresIn : SignCall(PageBucket, key, expiresIn)
  \/ Access
  \/ \E t \in Instants : Elapse(t)

SpecSigned == InitWrapper /\ [][NextSigned]_vars

(***************************************************************************)
(* Properties                                                              *)
(***************************************************************************)
Settled == page.pc \in {"joined", "rendered"}

\* Under every interleaving of the callbacks, entry i of fileUrls carries the
\* key of file i and the URL made for that key by the branch taken.
EntriesInOrder ==
  Settled =>
    /\ Len(page.fileUrls) = Len(page.files)
    /\ \A i \in DOMAIN page.fileUrls :
         /\ page.fileUrls[i].key = page.files[i].key
         /\ page.fileUrls[i].url \in
              {PublicLink(page.files[i])}
              \cup {[SignedLink(page.files[i]) EXCEPT !.date = t] : t \in 0..now}

\* C1: in UploadPage, whatever the order in which the concurrently started URL
\* lookups complete, the join is complete before anything is rendered, and
\* entry i of the joined result pairs key i with a URL that resolves to key i.
C1_EntryUrlResolvesToItsKey ==
  Settled =>
    /\ Len(page.fileUrls) = Len(page.files)
    /\ \A i \in DOMAIN page.fileUrls :
         /\ page.fileUrls[i] # Pending
         /\ page.fileUrls[i].key = page.files[i].key
         /\ Addressed(page.fileUrls[i].url).key = page.files[i].key

\* C2: uploadFileToS3 rejects with the very error the store signalled, after
\* exactly one send, and resolves after exactly one send.
C2_RejectsUnchangedAfterOneSend ==
  /\ put.pc = "rejected" => put.error = put.received /\ put.sends = 1
  /\ put.pc = "resolved" => put.sends = 1

C2_Witness ==
  /\ put.pc = "rejected"
  /\ put.received = "AccessDenied"
  /\ put.caller = "direct"

\* C3: listFilesInS3Path(bucket, p) returns only descriptors of objects of that
\* bucket whose key starts with p, and the empty sequence when no object of the
\* bucket matches (Contents absent).
C3_ListOnlyUnderPrefix ==
  lst.pc = "resolved" =>
    /\ \A i \in DOMAIN lst.result :
         /\ StartsWith(lst.result[i].key, lst.prefix)
         /\ \E o \in store : o.Bucket = lst.bucket /\ o.Key = lst.result[i].key
    /\ (~\E o \in store : o.Bucket = lst.bucket /\ StartsWith(o.Key, lst.prefix))
         => lst.result = <<>>

C3_Witness ==
  /\ lst.pc = "resolved"
  /\ lst.prefix = PagePrefix
  /\ lst.bucket = PageBucket
  /\ Len(lst.result) = 2
  /\ \E o \in store : o.Bucket = PageBucket /\ ~StartsWith(o.Key, PagePrefix)

\* The validity the caller of generateGetSignedUrl asked for: T, or the
\* wrapper's default when T was left out.
AskedExpiresIn == IF sig.expiresIn = Undefined THEN DefaultExpiresIn ELSE sig.expiresIn.v

C5_PublicUrlAddressesUpload ==
  (act.pc = "done" /\ act.params.ACL = Str("public-read")) =>
    LET u == ResolveUrl(getPublicUrl(act.params.Bucket, act.params.Key))
    IN /\ u.bucket = act.params.Bucket
       /\ u.key = act.params.Key
       /\ s3Client.region.t = "string" => u.region = s3Client.region.v

\* C6: a stored object is never updated in place: every object of the store
\* stays as it is in every step.
C6_NeverUpdatedInPlace == [][\A o \in store : o \in store']_vars

\* C6, amended: an object changes only in the step in which an uploadAction's
\* put of a file named like it (key test/<name>, in the configured bucket)
\* succeeds, and it is then replaced by that file.
C6_ReplacedOnlyBySameNameUpload ==
  [][\A o \in store :
       o \notin store' =>
         /\ put.pc = "sending" /\ put'.pc = "resolved"
         /\ put.caller = "uploadAction"
         /\ o.Bucket = OrEmpty(env.AWS_BUCKET_NAME)
         /\ o.Key = "test/" \o act.form.file.name
         /\ \E n \in store' :
              /\ n.Bucket = o.Bucket /\ n.Key = o.Key
              /\ n.Body = act.form.file.body
              /\ n.ContentType = Str(act.form.file.type)
              /\ n.ACL = act.params.ACL.v
              /\ n.LastModified = now]_vars

C6_Witness ==
  /\ act.pc = "done"
  /\ act.form.file.name = "a.png"
  /\ \E o \in store :
       /\ o.Key = "test/a.png" /\ o.Body = act.form.file.body /\ o.LastModified > 0
       /\ o \notin InitialObjects

\* The public links of a settled page.
PublicEntries ==
  IF Settled
  THEN {page.fileUrls[i].url : i \in {j \in DOMAIN page.fileUrls :
                                         page.fileUrls[j].url.kind = "public"}}
  ELSE {}

UploadSent == put.pc # "idle" /\ put.caller = "uploadAction"

Uploaded == put.pc = "resolved" /\ put.caller = "uploadAction"

\* C7: each of the four configuration values is the empty string when its
\* variable is absent: in the client configuration, in the upload's bucket and
\* in the URL getPublicUrl builds.
C7_AbsentYieldsEmptyString ==
  /\ env.AWS_ACCESS_KEY_ID = Undefined => s3Client.credentials.accessKeyId = ""
  /\ env.AWS_SECRET_ACCESS_KEY = Undefined => s3Client.credentials.secretAccessKey = ""
  /\ env.AWS_BUCKET_NAME = Undefined =>
       /\ UploadSent => put.request.Bucket = ""
       /\ \A u \in PublicEntries : ResolveUrl(u.href).bucket = ""
  /\ env.AWS_REGION = Undefined =>
       /\ s3Client.region = Str("")
       /\ \A u \in PublicEntries : ResolveUrl(u.href).region = ""

\* C7, amended: the access key, the secret key and the bucket name are the
\* empty string when absent; an absent region is passed on as undefined to the
\* client and is the text "undefined" in the URL getPublicUrl builds.
C7_AbsentDefaults ==
  /\ env.AWS_ACCESS_KEY_ID = Undefined => s3Client.credentials.accessKeyId = ""
  /\ env.AWS_SECRET_ACCESS_KEY = Undefined => s3Client.credentials.secretAccessKey = ""
  /\ env.AWS_BUCKET_NAME = Undefined =>
       /\ UploadSent => put.request.Bucket = ""
       /\ \A u \in PublicEntries : ResolveUrl(u.href).bucket = ""
  /\ env.AWS_REGION = Undefined =>
       /\ s3Client.region = Undefined
       /\ \A u \in PublicEntries : ResolveUrl(u.href).region = "undefined"

C7_Witness ==
  /\ env.AWS_REGION = Undefined
  /\ env.AWS_BUCKET_NAME = Undefined
  /\ page.pc = "rendered"
  /\ PublicEntries # {}
  /\ UploadSent

MissingOrEmpty(file) == file = Null \/ (file.t = "file" /\ FileSize(file) = 0)

\* C8: when the form has no file or an empty file, uploadAction logs an error
\* and goes on past both checks: it neither throws there nor returns early.
C8_MissingOrEmptyOnlyLogs ==
  (act.pc # "idle" /\ MissingOrEmpty(act.form.file)) =>
    /\ act.logs # <<>>
    /\ ~(act.pc = "threw" /\ act.at = "file.size")

\* C8, amended: for an empty file uploadAction logs "File is empty" and goes on
\* past both checks; for a missing file the first check logs "File is required"
\* and goes on, and the second check's read of file.size throws a TypeError.
C8_EmptyLogsMissingThrows ==
  act.pc # "idle" =>
    /\ (act.form.file.t = "file" /\ FileSize(act.form.file) = 0) =>
         /\ act.logs = <<"File is empty">>
         /\ ~(act.pc = "threw" /\ act.at = "file.size")
    /\ act.form.file = Null =>
         /\ act.logs = <<"File is required">>
         /\ act.pc = "threw" /\ act.error = "TypeError" /\ act.at = "file.size"

C8_Witness ==
  /\ act.pc = "threw"
  /\ act.form.file = Null
  /\ act.logs = <<"File is required">>

\* C9: the put request uploadFileToS3 sends carries ACL 'public-read' when the
\* caller's parameters omit ACL, and the given ACL otherwise.
C9_DefaultAclPublicRead ==
  put.pc # "idle" =>
    put.request.ACL = IF put.params.ACL = Undefined THEN Str("public-read") ELSE put.params.ACL

\* C10: the bucket an upload is put into, the bucket the page lists and the
\* bucket of every URL of the page are one and the same.
C10_OneBucket ==
  (lst.pc # "idle" /\ lst.caller = "UploadPage") =>
    /\ Uploaded => put.request.Bucket = lst.request.Bucket
    /\ Settled =>
         \A i \in DOMAIN page.fileUrls :
           Addressed(page.fileUrls[i].url).bucket = lst.request.Bucket

====
